---- MODULE Spec2Model ----
(***************************************************************************)
(* Model of the electoral_systems crate: the Schulze method                *)
(* (src/src/schulze_method.rs, with the pairwise-preference builder and    *)
(* ballot validation of src/src/lib.rs) and instant-runoff voting          *)
(* (src/src/instant_runoff_voting.rs).                                     *)
(*                                                                         *)
(* Candidates are their handles (Candidate.id, a usize).  A ballot is a    *)
(* sequence of <<candidate, rank>> pairs, a collection of ballots is a     *)
(* sequence of ballots.  A matrix is a sequence of rows; rows and columns  *)
(* are indexed by candidate handle, which starts at 0, so cell (x, y) of   *)
(* matrix m is m[x + 1][y + 1].                                            *)
(***************************************************************************)
EXTENDS Integers, Sequences, FiniteSets, TLC

VARIABLES
    fn,            \* the function being called
    votes,         \* the argument of the call (Vec<Ballot>), never changed
    pc,            \* position of the call
    panic,         \* which assertion/unwrap aborted the call, "none" otherwise
    count,         \* PairwisePreferences.counts
    widest_paths,  \* result of floyd_warshall_widest_paths
    result,        \* returned value: a sequence of candidates, <<>> when none
    ballots,       \* instant_runoff_vote's working copy of the ballots
    tally,         \* the HashMap of the current round (candidate -> votes)
    weakest,       \* the candidate picked for elimination in this round
    call,          \* 1 for the first call on votes, 2 for the repeated call
    first          \* outcome <<pc, panic, result>> of the first call

vars == <<fn, votes, pc, panic, count, widest_paths, result,
          ballots, tally, weakest, call, first>>

\* ------------------------------------------------------------------ bounds

\* Enumerated weight matrices are at most MaxDim x MaxDim ...
MaxDim == 4
\* ... with cells in 0..MaxWeight.
MaxWeight == 1
\* Enumerated ballots name candidates 0..MaxCandidates-1 ...
MaxCandidates == 3
\* ... with ranks 1..MaxRank ...
MaxRank == 2
\* ... and hold at most MaxBallotLen entries.
MaxBallotLen == 3
\* Enumerated collections hold at most MaxBallots ballots ...
MaxBallots == 3
\* ... and at most MaxEntries entries over all their ballots.
MaxEntries == 4

\* Enumerated collections of full ballots (every candidate on every ballot) hold
\* MaxFullBallots ballots.
MaxFullBallots == 2

\* ------------------------------------------------------- program constants

\* i32::MAX
I32Max == 2147483647

NoCandidate == 0 - 1

\* ---------------------------------------------------------------- helpers

Min(a, b) == IF a < b THEN a ELSE b

\* m[x][y] with 0-based indices, as Rust's Vec<Vec<i32>> is indexed.
Cell(m, x, y) == m[x + 1][y + 1]

SetCell(m, x, y, v) == [m EXCEPT ![x + 1][y + 1] = v]

\* vec![vec![0; n]; n]
ZeroMatrix(n) == [x \in 1..n |-> [y \in 1..n |-> 0]]

\* ------------------------------------------- floyd_warshall_widest_paths

\* Mutant of set_diagonal: the loop stops one short (0..dim-1).
RECURSIVE set_diagonal_short(_, _)
set_diagonal_short(m, i) ==
    IF i >= Len(m) - 1 THEN m
    ELSE set_diagonal_short(SetCell(m, i, i, I32Max), i + 1)

\* The first loop, resumed at i: current_widest[i][i] = i32::MAX for i in
\* 0..dim.  dim is the number of rows, which no step changes.
RECURSIVE set_diagonal(_, _)
set_diagonal(m, i) ==
    IF i >= Len(m) THEN m
    ELSE set_diagonal(SetCell(m, i, i, I32Max), i + 1)

\* One iteration of the innermost loop body.
widen(cw, k, i, j) ==
    LET width_using_k == Min(Cell(cw, i, k), Cell(cw, k, j))
    IN  IF Cell(cw, i, j) < width_using_k
           THEN SetCell(cw, i, j, width_using_k)
           ELSE cw

\* for j in 0..dim, resumed at j.
RECURSIVE j_loop(_, _, _, _)
j_loop(cw, k, i, j) ==
    IF j >= Len(cw) THEN cw ELSE j_loop(widen(cw, k, i, j), k, i, j + 1)

\* for i in 0..dim, resumed at i.
RECURSIVE i_loop(_, _, _)
i_loop(cw, k, i) ==
    IF i >= Len(cw) THEN cw ELSE i_loop(j_loop(cw, k, i, 0), k, i + 1)

\* Mutant of widest_loop: the intermediate node k is the innermost loop.
RECURSIVE k_innermost(_, _, _, _)
k_innermost(cw, i, j, k) ==
    IF k >= Len(cw) THEN cw ELSE k_innermost(widen(cw, k, i, j), i, j, k + 1)

RECURSIVE j_then_k(_, _, _)
j_then_k(cw, i, j) ==
    IF j >= Len(cw) THEN cw ELSE j_then_k(k_innermost(cw, i, j, 0), i, j + 1)

RECURSIVE widest_loop_k_innermost(_, _)
widest_loop_k_innermost(cw, i) ==
    IF i >= Len(cw) THEN cw
    ELSE widest_loop_k_innermost(j_then_k(cw, i, 0), i + 1)

\* for k in 0..dim, resumed at k: the intermediate node is the outermost loop.
RECURSIVE widest_loop(_, _)
widest_loop(cw, k) ==
    IF k >= Len(cw) THEN cw ELSE widest_loop(i_loop(cw, k, 0), k + 1)

\* Whether the function's assertion on its argument passes.
is_square_enough(weights) == Len(weights) = 0 \/ Len(weights) = Len(weights[1])

\* Mutant of floyd_warshall_widest_paths: the widening loops are left out, so
\* only the direct edges count.
floyd_warshall_direct_edges(weights) ==
    IF Len(weights) = 0 THEN <<>>
    ELSE set_diagonal(weights, 0)

floyd_warshall_widest_paths(weights) ==
    IF Len(weights) = 0 THEN <<>>
    ELSE widest_loop(set_diagonal(weights, 0), 0)

\* The step of a caller that holds a matrix in count and resolves it.
ComputeWidestPaths ==
    /\ pc = "counted"
    /\ IF is_square_enough(count)
          THEN /\ widest_paths' = floyd_warshall_widest_paths(count)
               /\ pc' = "resolved"
               /\ panic' = panic
          ELSE /\ widest_paths' = widest_paths
               /\ pc' = "panicked"
               /\ panic' = "only valid for square matrices"
    /\ UNCHANGED <<fn, votes, count, result, ballots, tally, weakest, call, first>>

\* -------------------------------------------------------- ballot validation

\* Rust's sort() on the handles: the same elements in non-decreasing order.
sorted_ids(ids) == SortSeq(ids, LAMBDA a, b : a < b)

\* Mutant of valid_ballot: the handles are scanned without being sorted.
valid_ballot_unsorted(ballot) ==
    LET candates == [i \in 1..Len(ballot) |-> ballot[i][1]]
    IN  IF Len(candates) < 1 THEN TRUE
        ELSE \A w \in 1..(Len(candates) - 1) : candates[w] # candates[w + 1]

\* lib.rs valid_ballot: collect the handles, sort them, and look for two equal
\* neighbours.  schulze_method asserts it of every ballot.
valid_ballot(ballot) ==
    LET candates == sorted_ids([i \in 1..Len(ballot) |-> ballot[i][1]])
    IN  IF Len(candates) < 1 THEN TRUE
        ELSE \A w \in 1..(Len(candates) - 1) : candates[w] # candates[w + 1]

\* The crate's unique_candidates, which instant_runoff_vote asserts of every
\* ballot: no candidate handle appears twice in the ballot.
unique_candidates(ballot) ==
    \A a, b \in 1..Len(ballot) : a # b => ballot[a][1] # ballot[b][1]

\* Mutant of schulze_validation: only the first ballot is checked.
schulze_validation_first_only(vs) == Len(vs) = 0 \/ valid_ballot(vs[1])

\* for ballot in votes.iter() { assert!(valid_ballot(ballot)); }
\* TRUE when no assertion fails.
schulze_validation(vs) == \A b \in 1..Len(vs) : valid_ballot(vs[b])

\* for ballot in ballots.iter() { assert!(unique_candidates(ballot)); }
irv_validation(vs) == \A b \in 1..Len(vs) : unique_candidates(vs[b])

\* ------------------------------------------------------ PairwisePreferences

SetMax(S) == CHOOSE m \in S : \A n \in S : n <= m

\* The greatest handle on any ballot, 0 when there is none.
highest_id(vs) ==
    SetMax({0} \cup UNION {{vs[b][e][1] : e \in 1..Len(vs[b])} : b \in 1..Len(vs)})

\* Mutant of count_ballot: ties are counted for the entry listed first.
count_ballot_ties(cnt, ballot) ==
    [x \in 1..Len(cnt) |-> [y \in 1..Len(cnt) |->
        cnt[x][y] + Cardinality({<<i, j>> \in (1..Len(ballot)) \X (1..Len(ballot)) :
            /\ i < j
            /\ \/ /\ ballot[i][2] <= ballot[j][2]
                  /\ ballot[i][1] = x - 1 /\ ballot[j][1] = y - 1
               \/ /\ ballot[j][2] < ballot[i][2]
                  /\ ballot[j][1] = x - 1 /\ ballot[i][1] = y - 1})]]

\* count_ballot: every pair of positions i < j of the ballot adds one to the
\* cell [a][b] when rank_a < rank_b, to the cell [b][a] when rank_b < rank_a,
\* and nothing when the ranks are equal.  The cell (x, y) therefore gains the
\* number of pairs that select it.
count_ballot(cnt, ballot) ==
    [x \in 1..Len(cnt) |-> [y \in 1..Len(cnt) |->
        cnt[x][y] + Cardinality({<<i, j>> \in (1..Len(ballot)) \X (1..Len(ballot)) :
            /\ i < j
            /\ \/ /\ ballot[i][2] < ballot[j][2]
                  /\ ballot[i][1] = x - 1 /\ ballot[j][1] = y - 1
               \/ /\ ballot[j][2] < ballot[i][2]
                  /\ ballot[j][1] = x - 1 /\ ballot[i][1] = y - 1})]]

\* The loop of from_ballots over the first n ballots.
RECURSIVE count_ballots(_, _)
count_ballots(vs, n) ==
    IF n = 0 THEN ZeroMatrix(highest_id(vs) + 1)
    ELSE count_ballot(count_ballots(vs, n - 1), vs[n])

from_ballots(vs) == count_ballots(vs, Len(vs))

\* ------------------------------------------------------------ Schulze method

\* Mutant of preferred_above_count: the two cells are compared the other way
\* round, so the challengers that beat or tie the candidate are counted.
preferred_above_count_swapped(preferences, candidate) ==
    Cardinality({other \in 0..(Len(preferences) - 1) :
        /\ candidate # other
        /\ Cell(preferences, other, candidate) >= Cell(preferences, candidate, other)})

\* The number of challengers the candidate beats or ties.
preferred_above_count(preferences, candidate) ==
    Cardinality({other \in 0..(Len(preferences) - 1) :
        /\ candidate # other
        /\ Cell(preferences, candidate, other) >= Cell(preferences, other, candidate)})

\* PairwisePreferences::candidates: the handles 0..num_candidates, in order.
candidates(cnt) == [i \in 1..Len(cnt) |-> i - 1]

\* Mutant of sort_by_key: the sequence is left in the order it came in.
sort_by_key_unsorted(seq, widest) == seq

\* sort_by_key with the key preferred_above_count(widest, candidate), a
\* stable sort: position p holds the element that has p - 1 elements before
\* it in the order by (key, original position).
sort_by_key(seq, widest) ==
    [p \in 1..Len(seq) |->
        seq[CHOOSE i \in 1..Len(seq) :
                Cardinality({j \in 1..Len(seq) :
                    \/ preferred_above_count(widest, seq[j]) <
                           preferred_above_count(widest, seq[i])
                    \/ /\ preferred_above_count(widest, seq[j]) =
                              preferred_above_count(widest, seq[i])
                       /\ j < i}) = p - 1]]

reverse(seq) == [p \in 1..Len(seq) |-> seq[Len(seq) + 1 - p]]

\* Mutant of schulze_ranking: the sorted candidates are not reversed.
schulze_ranking_not_reversed(cnt, widest) ==
    sort_by_key(candidates(cnt), widest)

\* schulze_method.rs lines 22-27: the candidates sorted by their score and
\* then reversed.
schulze_ranking(cnt, widest) ==
    reverse(sort_by_key(candidates(cnt), widest))

\* lib.rs preferred_to_all_others: no other candidate is strictly preferred.
preferred_to_all_others(preferences, candidate) ==
    \A other \in 0..(Len(preferences) - 1) :
        candidate = other \/
        ~(Cell(preferences, candidate, other) < Cell(preferences, other, candidate))

\* The winner search of lib.rs schulze_method: the first candidate preferred
\* to all others, NoCandidate when the loop falls through to unreachable!.
winner_search(preferences) ==
    LET winners == {c \in 0..(Len(preferences) - 1) :
                        preferred_to_all_others(preferences, c)}
    IN  IF winners = {} THEN NoCandidate
        ELSE CHOOSE c \in winners : \A d \in winners : c <= d

IsSchulze == fn \in {"schulze_method", "schulze_method_single"}

\* The assertions at the head of schulze_method.
ValidateVotes ==
    /\ IsSchulze
    /\ pc = "start"
    /\ IF schulze_validation(votes)
          THEN pc' = "validated" /\ panic' = panic
          ELSE pc' = "panicked" /\ panic' = "assert valid_ballot"
    /\ UNCHANGED <<fn, votes, count, widest_paths, result, ballots, tally,
                   weakest, call, first>>

\* let count = PairwisePreferences::from_ballots(&votes);
CountBallots ==
    /\ IsSchulze
    /\ pc = "validated"
    /\ count' = from_ballots(votes)
    /\ pc' = "counted"
    /\ UNCHANGED <<fn, votes, panic, widest_paths, result, ballots, tally,
                   weakest, call, first>>

\* Sorting the candidates; schulze_method returns here.
RankCandidates ==
    /\ IsSchulze
    /\ pc = "resolved"
    /\ result' = schulze_ranking(count, widest_paths)
    /\ pc' = IF fn = "schulze_method" THEN "done" ELSE "ranked"
    /\ UNCHANGED <<fn, votes, panic, count, widest_paths, ballots, tally,
                   weakest, call, first>>

\* schulze_method_single: *schulze_method(votes).get(0).expect(..)
TakeFirst ==
    /\ fn = "schulze_method_single"
    /\ pc = "ranked"
    /\ IF Len(result) > 0
          THEN result' = <<result[1]>> /\ pc' = "done" /\ panic' = panic
          ELSE result' = <<>> /\ pc' = "panicked"
               /\ panic' = "Expecting there to be at least one candidate."
    /\ UNCHANGED <<fn, votes, count, widest_paths, ballots, tally, weakest,
                   call, first>>

\* ------------------------------------------------------ instant-runoff vote

\* The candidate of the first entry among those of the least rank
\* (Iterator::min_by_key returns the first of several minima).  Only defined
\* for a ballot with entries; the unwrap on an empty one panics.
first_choice_candidate(ballot) ==
    ballot[CHOOSE i \in 1..Len(ballot) :
              \A j \in 1..Len(ballot) :
                  \/ ballot[i][2] < ballot[j][2]
                  \/ (ballot[i][2] = ballot[j][2] /\ i <= j)][1]

\* The HashMap of first_choice_tally: a key for every candidate that is the
\* first choice of a ballot, with the number of such ballots.
first_choice_tally(bs) ==
    [c \in {first_choice_candidate(bs[b]) : b \in 1..Len(bs)} |->
        Cardinality({b \in 1..Len(bs) : first_choice_candidate(bs[b]) = c})]

\* The candidates tally.iter().min_by_key(count) can return: the HashMap's
\* iteration order is unspecified, so any key of the least count may come
\* first.
min_by_count(t) == {c \in DOMAIN t : \A d \in DOMAIN t : t[c] <= t[d]}

\* Vec::swap_remove(i), i counted from 0: the last element takes the place of
\* the removed one.
swap_remove(v, i) ==
    IF i = Len(v) - 1 THEN SubSeq(v, 1, Len(v) - 1)
    ELSE [SubSeq(v, 1, Len(v) - 1) EXCEPT ![i + 1] = v[Len(v)]]

\* Mutant of remove_from_ballot: the index advances after a removal too.
RECURSIVE remove_from_ballot_advancing(_, _, _)
remove_from_ballot_advancing(ballot, candidate, i) ==
    IF i >= Len(ballot) THEN ballot
    ELSE IF ballot[i + 1][1] = candidate
         THEN remove_from_ballot_advancing(swap_remove(ballot, i), candidate, i + 1)
         ELSE remove_from_ballot_advancing(ballot, candidate, i + 1)

\* The while loop of remove_candidate on one ballot, resumed at index i.
RECURSIVE remove_from_ballot(_, _, _)
remove_from_ballot(ballot, candidate, i) ==
    IF i >= Len(ballot) THEN ballot
    ELSE IF ballot[i + 1][1] = candidate
         THEN remove_from_ballot(swap_remove(ballot, i), candidate, i)
         ELSE remove_from_ballot(ballot, candidate, i + 1)

\* Mutant of remove_candidate: the last ballot is left as it was.
remove_candidate_but_last(bs, candidate) ==
    [b \in 1..Len(bs) |->
        IF b = Len(bs) THEN bs[b] ELSE remove_from_ballot(bs[b], candidate, 0)]

\* for ballot in ballots.iter_mut(): the loop of remove_from_ballot on each.
remove_candidate(bs, candidate) ==
    [b \in 1..Len(bs) |-> remove_from_ballot(bs[b], candidate, 0)]

\* The assertions at the head of instant_runoff_vote.
IrvValidate ==
    /\ fn = "instant_runoff_vote"
    /\ pc = "start"
    /\ IF irv_validation(votes)
          THEN pc' = "tally" /\ panic' = panic /\ ballots' = votes
          ELSE pc' = "panicked" /\ panic' = "assert unique_candidates"
               /\ ballots' = ballots
    /\ UNCHANGED <<fn, votes, count, widest_paths, result, tally, weakest,
                   call, first>>

\* Lines 15-22 of the loop: the tally, the return when it has one key, and
\* the choice of the weakest candidate otherwise.
Tally ==
    /\ fn = "instant_runoff_vote"
    /\ pc = "tally"
    /\ IF \E b \in 1..Len(ballots) : Len(ballots[b]) = 0
          THEN \* first_choice_candidate unwraps None
               /\ pc' = "panicked"
               /\ panic' = "first_choice_candidate: unwrap on None"
               /\ UNCHANGED <<tally, weakest, result>>
          ELSE LET t == first_choice_tally(ballots)
               IN  /\ tally' = t
                   /\ IF Cardinality(DOMAIN t) = 1
                         THEN /\ result' = <<CHOOSE c \in DOMAIN t : TRUE>>
                              /\ pc' = "done"
                              /\ UNCHANGED <<panic, weakest>>
                         ELSE IF DOMAIN t = {}
                         THEN \* min_by_key of an empty map is None
                              /\ pc' = "panicked"
                              /\ panic' = "min_by_key: unwrap on None"
                              /\ UNCHANGED <<weakest, result>>
                         ELSE /\ \E c \in min_by_count(t) : weakest' = c
                              /\ pc' = "eliminate"
                              /\ UNCHANGED <<panic, result>>
    /\ UNCHANGED <<fn, votes, count, widest_paths, ballots, call, first>>

\* Line 23: remove_candidate(&mut ballots, *weakest_candidate)
Eliminate ==
    /\ fn = "instant_runoff_vote"
    /\ pc = "eliminate"
    /\ ballots' = remove_candidate(ballots, weakest)
    /\ pc' = "tally"
    /\ UNCHANGED <<fn, votes, panic, count, widest_paths, result, tally,
                   weakest, call, first>>

\* A caller that calls the same function again on the same ballots.
CallAgain ==
    /\ call = 1
    /\ pc \in {"done", "panicked"}
    /\ fn # "floyd_warshall_widest_paths"
    /\ call' = 2
    /\ first' = <<pc, panic, result>>
    /\ pc' = "start"
    /\ panic' = "none"
    /\ count' = <<>>
    /\ widest_paths' = <<>>
    /\ result' = <<>>
    /\ ballots' = <<>>
    /\ tally' = <<>>
    /\ weakest' = NoCandidate
    /\ UNCHANGED <<fn, votes>>

\* ------------------------------------------------------ inputs of the methods

Entries == (0..(MaxCandidates - 1)) \X (1..MaxRank)

RECURSIVE SumSeq(_)
SumSeq(q) == IF Len(q) = 0 THEN 0 ELSE Head(q) + SumSeq(Tail(q))

\* The lengths of the ballots of an enumerated collection.
Profiles ==
    {q \in UNION {[1..n -> 0..MaxBallotLen] : n \in 0..MaxBallots} :
        SumSeq(q) <= MaxEntries}

\* Every collection whose ballots have the lengths q; the ballots are any
\* sequences of entries, valid or not.
RECURSIVE CollectionsOf(_)
CollectionsOf(q) ==
    IF Len(q) = 0 THEN {<<>>}
    ELSE {<<b>> \o rest : b \in [1..Head(q) -> Entries],
                          rest \in CollectionsOf(Tail(q))}

BallotCollections == UNION {CollectionsOf(q) : q \in Profiles}

\* The ballots of the test simple_instant_runoff_vote (ALICE 0, BOB 1, CHAD 2).
simple_instant_runoff_vote ==
    << << <<0, 1>>, <<1, 2>>, <<2, 3>> >>,
       << <<0, 1>>, <<1, 2>>, <<2, 3>> >>,
       << <<2, 1>>, <<1, 2>>, <<0, 3>> >>,
       << <<1, 1>>, <<2, 2>>, <<0, 3>> >>,
       << <<1, 1>>, <<2, 2>>, <<0, 3>> >> >>

\* n copies of a ballot.
Copies(n, ballot) == [i \in 1..n |-> ballot]

\* The ballots of the test helper wiki_ballots
\* (ALICE 0, BOB 1, CHAD 2, DAVE 3, ELSA 4).
wiki_ballots ==
    Copies(5, << <<0, 1>>, <<2, 2>>, <<1, 3>>, <<4, 4>>, <<3, 5>> >>) \o
    Copies(5, << <<0, 1>>, <<3, 2>>, <<4, 3>>, <<2, 4>>, <<1, 5>> >>) \o
    Copies(8, << <<1, 1>>, <<4, 2>>, <<3, 3>>, <<0, 4>>, <<2, 5>> >>) \o
    Copies(3, << <<2, 1>>, <<0, 2>>, <<1, 3>>, <<4, 4>>, <<3, 5>> >>) \o
    Copies(7, << <<2, 1>>, <<0, 2>>, <<4, 3>>, <<1, 4>>, <<3, 5>> >>) \o
    Copies(2, << <<2, 1>>, <<1, 2>>, <<0, 3>>, <<3, 4>>, <<4, 5>> >>) \o
    Copies(7, << <<3, 1>>, <<2, 2>>, <<4, 3>>, <<1, 4>>, <<0, 5>> >>) \o
    Copies(8, << <<4, 1>>, <<1, 2>>, <<0, 3>>, <<3, 4>>, <<2, 5>> >>)

\* The ballot of the test invalid_ballot.
invalid_ballot == << << <<0, 1>>, <<0, 2>> >> >>

\* The ballots of the test ballot_counts.
ballot_counts ==
    << << <<0, 1>>, <<1, 2>>, <<2, 3>> >>,
       << <<0, 1>>, <<1, 1>>, <<2, 3>> >>,
       << <<0, 3>>, <<1, 2>>, <<2, 1>> >> >>

TestBallots ==
    {simple_instant_runoff_vote, wiki_ballots, invalid_ballot, ballot_counts}

\* Two ballots, one of which leaves a candidate out: 2 < 0 < 1 and 1 < 2.
partial_ballots ==
    << << <<2, 1>>, <<1, 3>>, <<0, 2>> >>, << <<2, 3>>, <<1, 2>> >> >>

\* Five ballots with a cycle of pairwise majorities: 0 < 1 once, 1 < 2 twice,
\* 2 < 0 twice.
cycle_ballots ==
    << << <<0, 1>>, <<1, 2>> >> >> \o
    Copies(2, << <<1, 1>>, <<2, 2>> >>) \o
    Copies(2, << <<2, 1>>, <<0, 2>> >>)

ExtraBallots == {partial_ballots, cycle_ballots}

Init ==
    /\ fn \in {"schulze_method", "schulze_method_single", "instant_runoff_vote"}
    /\ votes \in BallotCollections \cup TestBallots \cup ExtraBallots
    /\ pc = "start"
    /\ panic = "none"
    /\ count = <<>>
    /\ widest_paths = <<>>
    /\ result = <<>>
    /\ ballots = <<>>
    /\ tally = <<>>
    /\ weakest = NoCandidate
    /\ call = 1
    /\ first = <<>>

Next ==
    \/ ValidateVotes
    \/ CountBallots
    \/ ComputeWidestPaths
    \/ RankCandidates
    \/ TakeFirst
    \/ IrvValidate
    \/ Tally
    \/ Eliminate

Spec == Init /\ [][Next]_vars

\* The same calls, each made a second time on the same ballots.
NextTwice == Next \/ CallAgain

SpecTwice == Init /\ [][NextTwice]_vars

\* --------------------------------------- instant-runoff vote run to its end

\* Every valid ballot that lists each of the MaxCandidates candidates once,
\* in any order and with any ranks, equal ranks included.
FullBallots ==
    {b \in [1..MaxCandidates -> Entries] : unique_candidates(b)}

FullCollections == [1..MaxFullBallots -> FullBallots]

\* Three full ballots with three different first choices and tied ranks.
tied_full_ballots ==
    << << <<0, 1>>, <<1, 1>>, <<2, 1>> >>,
       << <<1, 1>>, <<2, 2>>, <<0, 3>> >>,
       << <<2, 1>>, <<0, 1>>, <<1, 2>> >> >>

InitIrv ==
    /\ fn = "instant_runoff_vote"
    /\ votes \in BallotCollections \cup TestBallots \cup ExtraBallots
                     \cup FullCollections \cup {tied_full_ballots}
    /\ pc = "start"
    /\ panic = "none"
    /\ count = <<>>
    /\ widest_paths = <<>>
    /\ result = <<>>
    /\ ballots = <<>>
    /\ tally = <<>>
    /\ weakest = NoCandidate
    /\ call = 1
    /\ first = <<>>

NextIrv ==
    \/ IrvValidate
    \/ Tally
    \/ Eliminate

\* instant_runoff_vote is a sequential loop that nothing interrupts: while a
\* step of it is possible, a step is taken.
SpecIrv == InitIrv /\ [][NextIrv]_vars /\ WF_vars(NextIrv)

\* ---------------------------------------- inputs of the widest-path resolver

\* The matrices of the resolver's unit tests.
simple_floyd_warshall == << <<0, 5, 0>>, <<0, 0, 5>>, <<0, 0, 0>> >>

simple_floyd_warshall_reversed == << <<0, 0, 0>>, <<5, 0, 0>>, <<1, 5, 0>> >>

floyd_warshall_chain == << <<0, 5, 1>>, <<1, 0, 5>>, <<3, 1, 0>> >>

complex_floyd_warshall ==
    << <<0, 5, 1, 0>>, <<1, 0, 5, 0>>, <<0, 1, 0, 5>>, <<3, 0, 1, 0>> >>

TestMatrices ==
    {simple_floyd_warshall, simple_floyd_warshall_reversed,
     floyd_warshall_chain, complex_floyd_warshall}

\* Every square matrix within the bounds, the 0 x 0 matrix included.
SquareMatrices ==
    UNION {[1..n -> [1..n -> 0..MaxWeight]] : n \in 0..MaxDim}

InitFW ==
    /\ fn = "floyd_warshall_widest_paths"
    /\ votes = <<>>
    /\ pc = "counted"
    /\ panic = "none"
    /\ count \in SquareMatrices \cup TestMatrices
    /\ widest_paths = <<>>
    /\ result = <<>>
    /\ ballots = <<>>
    /\ tally = <<>>
    /\ weakest = NoCandidate
    /\ call = 1
    /\ first = <<>>

NextFW == ComputeWidestPaths

SpecFW == InitFW /\ [][NextFW]_vars

\* --------------------------------------------------- inputs of valid_ballot

\* The ballot of the test valid_ballot_test.
valid_ballot_test == << <<0, 1>>, <<1, 2>>, <<2, 3>> >>

\* Every ballot within the bounds: any sequence of entries, in any order,
\* with or without repeated handles.
Ballots == UNION {[1..n -> Entries] : n \in 0..MaxBallotLen}

\* A caller that holds one ballot in votes and asks whether it is valid; the
\* returned bool is the only element of result.
CallValidBallot ==
    /\ fn = "valid_ballot"
    /\ pc = "start"
    /\ result' = <<valid_ballot(votes[1])>>
    /\ pc' = "done"
    /\ UNCHANGED <<fn, votes, panic, count, widest_paths, ballots, tally,
                   weakest, call, first>>

InitValidBallot ==
    /\ fn = "valid_ballot"
    /\ votes \in {<<b>> : b \in Ballots \cup {valid_ballot_test}}
                     \cup {invalid_ballot}
    /\ pc = "start"
    /\ panic = "none"
    /\ count = <<>>
    /\ widest_paths = <<>>
    /\ result = <<>>
    /\ ballots = <<>>
    /\ tally = <<>>
    /\ weakest = NoCandidate
    /\ call = 1
    /\ first = <<>>

NextValidBallot == CallValidBallot

SpecValidBallot == InitValidBallot /\ [][NextValidBallot]_vars

\* ------------------------------------------------ widest-path resolver claims

Nodes(m) == 0..(Len(m) - 1)

\* Every sequence of pairwise distinct nodes of an n-node graph, of 1..n nodes.
SimplePaths(n) ==
    {p \in UNION {[1..l -> 0..(n - 1)] : l \in 1..n} :
        \A a, b \in DOMAIN p : a # b => p[a] # p[b]}

\* The least edge weight along p, i32::MAX for a path of one node.
RECURSIVE PathWidth(_, _)
PathWidth(W, p) ==
    IF Len(p) < 2 THEN I32Max
    ELSE Min(Cell(W, p[1], p[2]), PathWidth(W, Tail(p)))

\* The widest bottleneck over all paths x -> ... -> y whose inner nodes are
\* distinct members of S, found by exhaustive search.
RECURSIVE BestWidth(_, _, _, _)
BestWidth(W, x, y, S) ==
    SetMax({Cell(W, x, y)} \cup
           {Min(Cell(W, x, z), BestWidth(W, z, y, S \ {z})) : z \in S})

ReferenceWidest(W) ==
    [x \in 1..Len(W) |->
        [y \in 1..Len(W) |->
            IF x = y THEN I32Max
            ELSE BestWidth(W, x - 1, y - 1, Nodes(W) \ {x - 1, y - 1})]]

\* C1: once the resolver has run on a square matrix of two or more nodes, its
\* cell (v0, vk) is at least the least edge weight of every simple path
\* v0, ..., vk: no path's bottleneck is underestimated.
C1_NeverUnderestimates ==
    (pc = "resolved" /\ Len(count) >= 2) =>
        \A p \in SimplePaths(Len(count)) :
            Cell(widest_paths, p[1], p[Len(p)]) >= PathWidth(count, p)

\* A resolved 4-node matrix with a 3-edge path that is strictly wider than
\* the direct edge between its ends, and that the resolver's cell matches.
C1_Witness ==
    /\ pc = "resolved"
    /\ Len(count) = 4
    /\ \E p \in SimplePaths(4) :
          /\ Len(p) = 4
          /\ PathWidth(count, p) > Cell(count, p[1], p[4])
          /\ Cell(widest_paths, p[1], p[4]) = PathWidth(count, p)

\* C2: the resolver's result is the reference widest-path matrix: off the
\* diagonal the greatest bottleneck over all paths, i32::MAX on the diagonal,
\* and the empty matrix for the empty matrix.
C2_EqualsReference ==
    pc = "resolved" =>
        /\ widest_paths = ReferenceWidest(count)
        /\ \A x \in Nodes(count) : Cell(widest_paths, x, x) = I32Max
        /\ Len(count) = 0 => widest_paths = <<>>

\* The 4-node unit-test matrix resolved to the matrix the test expects.
C2_Witness ==
    /\ pc = "resolved"
    /\ count = complex_floyd_warshall
    /\ widest_paths = << <<I32Max, 5, 5, 5>>, <<3, I32Max, 5, 5>>,
                         <<3, 3, I32Max, 5>>, <<3, 3, 3, I32Max>> >>

\* ------------------------------------------------------------ method claims

IsValidInput == \A b \in 1..Len(votes) : unique_candidates(votes[b])

\* Whether the ballot lists candidate x.
Lists(ballot, x) == \E e \in 1..Len(ballot) : ballot[e][1] = x

\* The rank a ballot that lists x gives to x.
RankOf(ballot, x) == ballot[CHOOSE e \in 1..Len(ballot) : ballot[e][1] = x][2]

\* The handles that appear on the ballots of a collection.
Present(bs) == UNION {{bs[b][e][1] : e \in 1..Len(bs[b])} : b \in 1..Len(bs)}

\* The ballots of the collection that list both x and y and rank x before y.
Preferring(vs, x, y) ==
    {b \in 1..Len(vs) :
        /\ Lists(vs[b], x) /\ Lists(vs[b], y)
        /\ RankOf(vs[b], x) < RankOf(vs[b], y)}

Counted == IsSchulze /\ pc \in {"counted", "resolved", "ranked", "done"}

Resolved == IsSchulze /\ pc \in {"resolved", "ranked", "done"}

\* C3: once the valid ballots are counted, the matrix has one row and column
\* per handle up to the highest one on any ballot, and its cell (x, y) is the
\* number of ballots that list x and y and rank x strictly before y; ties and
\* omissions add nothing.
C3_PairwiseCounts ==
    Counted =>
        /\ Present(votes) # {} =>
              /\ (Len(count) - 1) \in Present(votes)
              /\ \A c \in Present(votes) : c <= Len(count) - 1
        /\ \A x \in 1..Len(count) : Len(count[x]) = Len(count)
        /\ \A x, y \in Nodes(count) :
              Cell(count, x, y) = Cardinality(Preferring(votes, x, y))

\* Three candidates, of which 1 is on no ballot; two ballots list 0 and 2,
\* one ranks 0 first and the other ties them.
C3_Witness ==
    /\ Counted
    /\ Len(count) = 3
    /\ Len(votes) = 2
    /\ ~Lists(votes[1], 1) /\ ~Lists(votes[2], 1)
    /\ Lists(votes[1], 0) /\ Lists(votes[1], 2)
    /\ RankOf(votes[1], 0) < RankOf(votes[1], 2)
    /\ Lists(votes[2], 0) /\ Lists(votes[2], 2)
    /\ RankOf(votes[2], 0) = RankOf(votes[2], 2)
    /\ Cell(count, 0, 2) = 1
    /\ Cell(count, 2, 0) = 0

\* The score of candidate c: the other candidates d with
\* widest[c][d] >= widest[d][c].
Score(widest, c) ==
    Cardinality({d \in Nodes(widest) \ {c} :
                    Cell(widest, c, d) >= Cell(widest, d, c)})

\* C4: once the widest paths are resolved, some candidate has score N - 1, the
\* winner search of lib.rs finds a candidate, and the first candidate that
\* schulze_method returns has score N - 1.
C4_WinnerExists ==
    /\ Resolved =>
          /\ \E c \in Nodes(widest_paths) :
                Score(widest_paths, c) = Len(widest_paths) - 1
          /\ winner_search(widest_paths) # NoCandidate
    /\ (IsSchulze /\ pc = "done") =>
          Score(widest_paths, result[1]) = Len(widest_paths) - 1

\* A returned ranking over three candidates with a cycle of pairwise
\* majorities, in which not every candidate has the full score.
C4_Witness ==
    /\ fn = "schulze_method"
    /\ pc = "done"
    /\ Len(count) = 3
    /\ \E x, y, z \in Nodes(count) :
          /\ Cell(count, x, y) > Cell(count, y, x)
          /\ Cell(count, y, z) > Cell(count, z, y)
          /\ Cell(count, z, x) > Cell(count, x, z)
    /\ \E c \in Nodes(count) : Score(widest_paths, c) < 2

\* The position of candidate c in the returned ranking.
Position(c) == CHOOSE p \in 1..Len(result) : result[p] = c

\* C5 as stated: whenever every ballot that lists both A and B ranks A
\* strictly before B, the ranking places A before B.
C5_Original ==
    (fn = "schulze_method" /\ pc = "done") =>
        \A A, B \in Nodes(count) :
            (/\ A # B
             /\ \A b \in 1..Len(votes) :
                    (Lists(votes[b], A) /\ Lists(votes[b], B)) =>
                        RankOf(votes[b], A) < RankOf(votes[b], B))
            => Position(A) < Position(B)

\* C5, amended: whenever there is a ballot and every ballot lists both A and
\* B and ranks A strictly before B, the ranking places A before B.
C5_Amended ==
    (fn = "schulze_method" /\ pc = "done") =>
        \A A, B \in Nodes(count) :
            (/\ A # B
             /\ Len(votes) >= 1
             /\ \A b \in 1..Len(votes) :
                    /\ Lists(votes[b], A) /\ Lists(votes[b], B)
                    /\ RankOf(votes[b], A) < RankOf(votes[b], B))
            => Position(A) < Position(B)

\* A returned ranking of three candidates where every ballot ranks 0 before
\* 1 and some ballot also lists 2; 0 is placed before 1.
C5_Witness ==
    /\ fn = "schulze_method"
    /\ pc = "done"
    /\ Len(votes) >= 1
    /\ Len(count) = 3
    /\ \A b \in 1..Len(votes) : /\ Lists(votes[b], 0) /\ Lists(votes[b], 1)
                                /\ RankOf(votes[b], 0) < RankOf(votes[b], 1)
    /\ \E b \in 1..Len(votes) : Lists(votes[b], 2)
    /\ Position(0) < Position(1)

\* The number of ballots whose first choice is c.
FirstChoiceVotes(bs, c) ==
    Cardinality({b \in 1..Len(bs) :
                    Len(bs[b]) > 0 /\ first_choice_candidate(bs[b]) = c})

\* C6 as stated: the candidate picked for elimination has the fewest
\* first-choice votes of the candidates still on the ballots, and after the
\* elimination it is on no ballot.
C6_Original ==
    /\ (fn = "instant_runoff_vote" /\ pc = "eliminate") =>
          \A c \in Present(ballots) :
              FirstChoiceVotes(ballots, c) >= FirstChoiceVotes(ballots, weakest)
    /\ (fn = "instant_runoff_vote" /\ pc = "tally" /\ weakest # NoCandidate) =>
          weakest \notin Present(ballots)

\* C7 as stated: a ballot emptied by eliminations does not make the tally
\* fail.
C7_Original ==
    (/\ fn = "instant_runoff_vote"
     /\ \A b \in 1..Len(votes) : Len(votes[b]) > 0
     /\ \E b \in 1..Len(ballots) : Len(ballots[b]) = 0)
    => pc # "panicked"

\* C8 as stated: when the first call on a collection of ballots returns and
\* the second call on the same ballots returns, they return the same output.
C8_Original ==
    (call = 2 /\ pc = "done" /\ first[1] = "done") => result = first[3]

\* C9 as stated: schulze_method and schulze_method_single do not return on an
\* empty collection of ballots.
C9_Original ==
    (IsSchulze /\ Len(votes) = 0) => (pc # "done" /\ result = <<>>)

\* Whether the ballot lists a handle twice.
HasDuplicate(ballot) ==
    \E a, b \in 1..Len(ballot) : a # b /\ ballot[a][1] = ballot[b][1]

\* C10: when some ballot lists a handle twice, the call is either not yet
\* started or aborted by the validation assertion, and no count, widest path,
\* working copy, tally or result exists.
C10_InvalidAborts ==
    (\E b \in 1..Len(votes) : HasDuplicate(votes[b])) =>
        /\ pc \in {"start", "panicked"}
        /\ pc = "panicked" =>
              panic \in {"assert valid_ballot", "assert unique_candidates"}
        /\ count = <<>>
        /\ widest_paths = <<>>
        /\ ballots = <<>>
        /\ tally = <<>>
        /\ weakest = NoCandidate
        /\ result = <<>>

\* Three ballots of which only the last lists a handle twice, aborted.
C10_Witness ==
    /\ pc = "panicked"
    /\ Len(votes) = 3
    /\ ~HasDuplicate(votes[1]) /\ Len(votes[1]) > 0
    /\ ~HasDuplicate(votes[2])
    /\ HasDuplicate(votes[3])

\* C11: valid_ballot returns false exactly when two entries of the ballot
\* carry the same handle, wherever they stand; it returns true for the empty
\* ballot and for every ballot of distinct handles, whatever its ranks are.
C11_ValidIffDistinct ==
    (fn = "valid_ballot" /\ pc = "done") =>
        /\ (result[1] = FALSE) <=> HasDuplicate(votes[1])
        /\ Len(votes[1]) = 0 => result[1] = TRUE
        /\ (\A a, b \in 1..Len(votes[1]) :
                a # b => votes[1][a][1] # votes[1][b][1]) => result[1] = TRUE

\* A rejected ballot whose two equal handles are not neighbours, and whose
\* ranks are all equal.
C11_Witness ==
    /\ fn = "valid_ballot"
    /\ pc = "done"
    /\ Len(votes[1]) = 3
    /\ votes[1][1][1] = votes[1][3][1]
    /\ votes[1][1][1] # votes[1][2][1]
    /\ \A e \in 1..3 : votes[1][e][2] = 1
    /\ result = <<FALSE>>

\* The matrix the test wiki_ballot_count expects.
wiki_ballot_count ==
    << <<0, 20, 26, 30, 22>>,
       <<25, 0, 16, 33, 18>>,
       <<19, 29, 0, 17, 24>>,
       <<15, 12, 28, 0, 14>>,
       <<23, 27, 21, 31, 0>> >>

\* The matrix the test wiki_floyd_warshall expects.
wiki_floyd_warshall ==
    << <<I32Max, 28, 28, 30, 24>>,
       <<25, I32Max, 28, 33, 24>>,
       <<25, 29, I32Max, 29, 24>>,
       <<25, 28, 28, I32Max, 24>>,
       <<25, 28, 28, 31, I32Max>> >>

\* C12: on the 45 ballots of wiki_ballots the pairwise counts are the matrix
\* of wiki_ballot_count, the widest paths are the matrix of
\* wiki_floyd_warshall, and schulze_method_single returns candidate 4 (ELSA).
C12_WikiExample ==
    (IsSchulze /\ votes = wiki_ballots) =>
        /\ pc # "panicked"
        /\ Counted => count = wiki_ballot_count
        /\ Resolved => widest_paths = wiki_floyd_warshall
        /\ (fn = "schulze_method_single" /\ pc = "done") => result = <<4>>

\* schulze_method_single has returned ELSA on the 45 ballots.
C12_Witness ==
    /\ fn = "schulze_method_single"
    /\ votes = wiki_ballots
    /\ Len(votes) = 45
    /\ pc = "done"
    /\ count = wiki_ballot_count
    /\ widest_paths = wiki_floyd_warshall
    /\ result = <<4>>

\* A call of instant_runoff_vote on one or more valid ballots, each of which
\* lists every candidate that is on any of them.
FullInput ==
    /\ fn = "instant_runoff_vote"
    /\ Len(votes) >= 1
    /\ IsValidInput
    /\ Present(votes) # {}
    /\ \A b \in 1..Len(votes) : \A c \in Present(votes) : Lists(votes[b], c)

\* What holds in every state of such a call: it has not panicked, some
\* candidate of the input is still on the ballots (so there were at most
\* N - 1 eliminations), and a returned candidate is still on the ballots and
\* is the first choice of every ballot.
FullInputSafe ==
    /\ pc # "panicked"
    /\ pc \in {"tally", "eliminate", "done"} =>
          /\ Present(ballots) # {}
          /\ Present(ballots) \subseteq Present(votes)
          /\ Cardinality(Present(votes)) - Cardinality(Present(ballots))
                 <= Cardinality(Present(votes)) - 1
    /\ pc = "done" =>
          /\ Len(result) = 1
          /\ result[1] \in Present(ballots)
          /\ \A b \in 1..Len(ballots) :
                /\ Len(ballots[b]) > 0
                /\ first_choice_candidate(ballots[b]) = result[1]

\* The elimination step of such a call takes exactly the weakest candidate,
\* which was on the ballots, off them.
FullInputShrinks ==
    (FullInput /\ pc = "eliminate") =>
        /\ weakest \in Present(ballots)
        /\ Present(ballots') = Present(ballots) \ {weakest}
        /\ Cardinality(Present(ballots')) < Cardinality(Present(ballots))

\* C13: a call on one or more valid ballots that all list all the candidates
\* returns a candidate: every elimination strictly shrinks the set of
\* candidates on the ballots, there are at most N - 1 of them, the call never
\* panics, and the returned candidate was never eliminated and is the first
\* choice of every ballot of the final round.
C13_FullBallotsReturn ==
    /\ [](FullInput => FullInputSafe)
    /\ [][FullInputShrinks]_vars
    /\ (FullInput ~> pc = "done")

\* The five ballots of the test, returned after two eliminations out of
\* three candidates.
C13_Witness ==
    /\ FullInput
    /\ votes = simple_instant_runoff_vote
    /\ pc = "done"
    /\ Cardinality(Present(votes)) = 3
    /\ Present(ballots) = {1}
    /\ result = <<1>>

\* C14: the sequence schulze_method returns holds each handle 0..N-1 exactly
\* once, N being one more than the highest handle on any ballot (1 when no
\* ballot has an entry), and no candidate stands before one of a strictly
\* higher score.
C14_RankingOrdered ==
    (fn = "schulze_method" /\ pc = "done") =>
        /\ Len(result) = Len(widest_paths)
        /\ Present(votes) # {} => Len(result) = 1 + SetMax(Present(votes))
        /\ Present(votes) = {} => Len(result) = 1
        /\ \A c \in 0..(Len(result) - 1) :
              Cardinality({p \in 1..Len(result) : result[p] = c}) = 1
        /\ \A p, q \in 1..Len(result) :
              p < q => Score(widest_paths, result[p]) >=
                           Score(widest_paths, result[q])

\* A returned ranking of three candidates with three different scores that
\* is neither in the order of the handles nor in the reverse of it.
C14_Witness ==
    /\ fn = "schulze_method"
    /\ pc = "done"
    /\ Len(result) = 3
    /\ result[1] = 1
    /\ Score(widest_paths, result[1]) > Score(widest_paths, result[2])
    /\ Score(widest_paths, result[2]) > Score(widest_paths, result[3])

\* C15 as stated: the elimination step leaves the first choice of every
\* ballot whose first choice is not the eliminated candidate as it was.
C15_Original ==
    [][(fn = "instant_runoff_vote" /\ pc = "eliminate") =>
          \A b \in 1..Len(ballots) :
              first_choice_candidate(ballots[b]) # weakest =>
                  /\ Len(ballots'[b]) > 0
                  /\ first_choice_candidate(ballots'[b]) =
                         first_choice_candidate(ballots[b])]_vars

====
